---- MODULE Spec2Model ----
(***************************************************************************)
(* Model of the dialogue state tracker of FlightGear_NLP                   *)
(* (src/dialogue_state_tracker.py) and of the part of the application loop *)
(* (src/main.py) that drives it.                                           *)
(*                                                                         *)
(* Python values are tagged records: None, Num(n), Str(s) and the two      *)
(* entity dicts; a Python dict is a function with a finite domain of       *)
(* strings.  Raw text is a TLA+ string and every keyword test, regular     *)
(* expression and int() conversion of the code is computed on it           *)
(* character by character.                                                 *)
(***************************************************************************)
EXTENDS Integers, Sequences, FiniteSets, TLC

\* ------------------------------------------------------------------------
\* Python values

None == [t |-> "None"]
Num(n) == [t |-> "int", v |-> n]
Str(s) == [t |-> "str", s |-> s]

\* Python truthiness of a value: None, 0 and '' are falsy, a non-empty dict is truthy.
Truthy(x) ==
    CASE x.t = "None" -> FALSE
      [] x.t = "int" -> x.v # 0
      [] x.t = "str" -> x.s # ""
      [] OTHER -> TRUE

EmptyDict == << >>

\* dict.get(k) with the default None
Get(d, k) == IF k \in DOMAIN d THEN d[k] ELSE None

\* d[k] = v
Put(d, k, v) == [x \in (DOMAIN d) \cup {k} |-> IF x = k THEN v ELSE d[x]]

\* ------------------------------------------------------------------------
\* Strings

Char(s, i) == SubSeq(s, i, i)

\* `k in s`
Contains(s, k) == \E i \in 1..(Len(s) - Len(k) + 1) : SubSeq(s, i, i + Len(k) - 1) = k

\* k occurs in s starting at position i
At(s, i, k) == i >= 1 /\ i + Len(k) - 1 <= Len(s) /\ SubSeq(s, i, i + Len(k) - 1) = k

StartsWith(s, k) == At(s, 1, k)

EndsWith(s, k) == At(s, Len(s) - Len(k) + 1, k)

UpperChars == "ABCDEFGHIJKLMNOPQRSTUVWXYZ"

LowerChars == "abcdefghijklmnopqrstuvwxyz"

Digits == "0123456789"

LowerChar(c) ==
    IF Contains(UpperChars, c)
    THEN Char(LowerChars, CHOOSE i \in 1..Len(UpperChars) : Char(UpperChars, i) = c)
    ELSE c

RECURSIVE LowerFrom(_, _)
LowerFrom(s, i) == IF i > Len(s) THEN "" ELSE LowerChar(Char(s, i)) \o LowerFrom(s, i + 1)

\* str.lower()
Lower(s) == LowerFrom(s, 1)

IsDigit(c) == Contains(Digits, c)

\* \w of the regular expressions: a letter, a digit or the underscore
IsWordChar(c) == Contains(UpperChars, c) \/ Contains(LowerChars, c) \/ IsDigit(c) \/ c = "_"

\* \s of the regular expressions
IsSpace(c) == c = " "

DigitVal(c) == (CHOOSE i \in 1..Len(Digits) : Char(Digits, i) = c) - 1

RECURSIVE ParseDigits(_, _)
\* the number written by the first n characters of s, all digits
ParseDigits(s, n) == IF n = 0 THEN 0 ELSE 10 * ParseDigits(s, n - 1) + DigitVal(Char(s, n))

\* int() of a string of digits
ParseInt(s) == ParseDigits(s, Len(s))

\* Body(value), with value computed once
Let(value, Body(_)) == CHOOSE r \in {Body(x) : x \in {value}} : TRUE

Min(S) == CHOOSE x \in S : \A y \in S : x <= y

\* the end of the longest run of characters satisfying the class, starting at i
RunEnd(s, i, IsIn(_)) ==
    CHOOSE j \in i..Len(s) :
        /\ \A m \in i..j : IsIn(Char(s, m))
        /\ (j = Len(s) \/ ~IsIn(Char(s, j + 1)))

\* re.findall(r'\d+', s): is there a number, and the first one
HasNumber(s) == \E i \in 1..Len(s) : IsDigit(Char(s, i))

FirstNumber(s) ==
    Let(Min({i \in 1..Len(s) : IsDigit(Char(s, i))}),
        LAMBDA p : ParseInt(SubSeq(s, p, RunEnd(s, p, IsDigit))))

\* ------------------------------------------------------------------------
\* The tests the tracker makes on a raw text, computed on the string

correction_keywords ==
    {"actually", "correction", "change", "update", "make it", "instead", "rather",
     "no wait", "scratch that", "never mind", "cancel", "abort", "wrong", "not that"}

altitude_keywords == {"altitude", "height", "feet", "ft"}

speed_keywords == {"speed", "knots", "kts"}

heading_keywords == {"heading", "direction", "turn", "degrees"}

\* any(keyword in user_lower for keyword in keywords)
HasKeyword(user_lower, keywords) == \E keyword \in keywords : Contains(user_lower, keyword)

\* r'(?:waypoint|point|location)\s+(\w+)' with re.IGNORECASE, on the text s and
\* its lower-case form
waypoint_words == {"waypoint", "point", "location"}

WaypointNameStart(s, i, kw) == RunEnd(s, i + Len(kw), IsSpace) + 1

WaypointMatchAt(s, lower, i, kw) ==
    /\ At(lower, i, kw)
    /\ i + Len(kw) <= Len(s)
    /\ IsSpace(Char(s, i + Len(kw)))
    /\ WaypointNameStart(s, i, kw) <= Len(s)
    /\ IsWordChar(Char(s, WaypointNameStart(s, i, kw)))

WaypointMatches(s, lower) ==
    {m \in (1..Len(s)) \X waypoint_words : WaypointMatchAt(s, lower, m[1], m[2])}

\* group(1) of the leftmost match, "" when the pattern does not match
WaypointName(s, lower) ==
    Let(WaypointMatches(s, lower),
        LAMBDA matches :
            IF matches = {} THEN ""
            ELSE Let(CHOOSE x \in matches : \A y \in matches : x[1] <= y[1],
                     LAMBDA m : Let(WaypointNameStart(s, m[1], m[2]),
                                    LAMBDA n : SubSeq(s, n, RunEnd(s, n, IsWordChar)))))

\* r'(?:the\s+)?(first|second|third|last)\s+one' with re.IGNORECASE
ordinal_words == {"first", "second", "third", "last"}

OrdinalMatchAt(s, lower, i, o) ==
    /\ At(lower, i, o)
    /\ i + Len(o) <= Len(s)
    /\ IsSpace(Char(s, i + Len(o)))
    /\ At(lower, RunEnd(s, i + Len(o), IsSpace) + 1, "one")

OrdinalMatches(s, lower) ==
    {m \in (1..Len(s)) \X ordinal_words : OrdinalMatchAt(s, lower, m[1], m[2])}

\* group(1).lower() of the leftmost match, "" when the pattern does not match; the
\* optional "the " before it does not change which ordinal word comes first
Ordinal(s, lower) ==
    Let(OrdinalMatches(s, lower),
        LAMBDA matches :
            IF matches = {} THEN ""
            ELSE (CHOOSE x \in matches : \A y \in matches : x[1] <= y[1])[2])

ItTrigger(user_lower) ==
    Contains(user_lower, " it ") \/ StartsWith(user_lower, "it ") \/ EndsWith(user_lower, " it")

ThereTrigger(user_lower) == Contains(user_lower, " there") \/ StartsWith(user_lower, "there")

ThatTrigger(user_lower) == Contains(user_lower, " that")

\* Every test of the tracker on one raw text
Scan(user_input) ==
    Let(Lower(user_input),
        LAMBDA user_lower :
            [correction |-> HasKeyword(user_lower, correction_keywords),
             has_number |-> HasNumber(user_input),
             number |-> IF HasNumber(user_input) THEN FirstNumber(user_input) ELSE 0,
             altitude |-> HasKeyword(user_lower, altitude_keywords),
             speed |-> HasKeyword(user_lower, speed_keywords),
             heading |-> HasKeyword(user_lower, heading_keywords),
             aircraft |-> Contains(user_lower, "aircraft") \/ Contains(user_lower, "plane"),
             waypoint |-> WaypointName(user_input, user_lower),
             it |-> ItTrigger(user_lower),
             there |-> ThereTrigger(user_lower),
             ordinal |-> Ordinal(user_input, user_lower),
             that |-> ThatTrigger(user_lower)])

\* What the user may say
Texts ==
    {"climb to 10000 feet",
     "actually make it 12000",
     "Actually make it 8000 feet",
     "scratch that 8000 feet",
     "keep doing that",
     "the first one",
     "waypoint last_altitude that"}

\* The texts _extract_parameter_updates is tried on: one or two keyword groups,
\* no keyword, no number, and 'left', which contains 'ft'
ExtractorTexts ==
    {"change speed to 250 knots at 5000 feet",
     "update altitude 3000 heading 90",
     "make it 250 knots heading 90",
     "instead turn to 270 degrees",
     "speed 180 instead",
     "actually turn left 20",
     "actually make it 12000",
     "never mind"}

\* The texts _resolve_coreferences is tried on: each trigger alone, several
\* triggers together, the ordinals with no effect, 'there', and no trigger
ResolverTexts ==
    {"do it",
     "keep doing that",
     "the first one",
     "make it that",
     "it is the first one",
     "the first one not that",
     "do it like the first one not that",
     "the second one",
     "the third one",
     "the last one",
     "go there",
     "climb"}

\* The tests of every text, computed once
Scanned == [user_input \in Texts \cup ExtractorTexts \cup ResolverTexts |-> Scan(user_input)]

is_correction(user_input) == Scanned[user_input].correction

\* ------------------------------------------------------------------------
\* DialogueStateTracker: each method is an operator from the object (a record of
\* its fields) and the arguments to the object after the call.

\* __init__
NewTracker ==
    [current_intent |-> None,
     slots |-> EmptyDict,
     conversation_history |-> << >>,
     pending_slots |-> << >>,
     entity_references |-> EmptyDict,
     last_action |-> None,
     turn_count |-> 0]

\* A faulty construction, in which slots is an attribute of the class
own_containers_without_slots == {"conversation_history", "pending_slots", "entity_references"}

\* __init__, lines 27-30: the containers created for each tracker; any other
\* container would be the class's object, one for every tracker
own_containers == {"slots", "conversation_history", "pending_slots", "entity_references"}

\* the containers update_state writes in place (lines 48, 85, 137, 151-165, 181,
\* 194-216); pending_slots is bound to a new list at line 278
written_in_place == {"slots", "conversation_history", "entity_references"}

\* What another tracker `t` holds after a call has left this one as `self`: a
\* container written in place that is not the tracker's own shows the writes
Seen(t, self) ==
    [f \in DOMAIN t |-> IF f \in written_in_place \ own_containers THEN self[f] ELSE t[f]]

\* A faulty merge, which stores the None values too
MergeStoringNull(slots, parameters) ==
    [k \in (DOMAIN slots) \cup (DOMAIN parameters) |->
        IF k \in DOMAIN parameters THEN parameters[k] ELSE slots[k]]

\* `for key, value in parameters.items(): if value is not None: slots[key] = value`
MergeNonNull(slots, parameters) ==
    [k \in (DOMAIN slots) \cup {x \in DOMAIN parameters : parameters[x] # None} |->
        IF k \in DOMAIN parameters /\ parameters[k] # None THEN parameters[k] ELSE slots[k]]

\* A faulty extractor, which routes the number by the keywords of the text only
extract_target_by_keyword(self, user_input) ==
    LET text == Scanned[user_input]
    IN  IF ~text.has_number THEN ""
        ELSE IF text.altitude THEN "altitude_ft"
        ELSE IF text.speed THEN "speed_value"
        ELSE IF text.heading THEN "heading_deg"
        ELSE ""

\* A faulty extractor, which tests the speed keywords before the altitude keywords
extract_target_speed_first(self, user_input) ==
    LET text == Scanned[user_input]
    IN  IF ~text.has_number THEN ""
        ELSE IF text.speed THEN "speed_value"
        ELSE IF text.altitude THEN "altitude_ft"
        ELSE IF text.heading THEN "heading_deg"
        ELSE IF Truthy(self.current_intent)
             THEN CASE self.current_intent = Str("change_altitude") -> "altitude_ft"
                    [] self.current_intent = Str("change_speed") -> "speed_value"
                    [] self.current_intent = Str("change_direction") -> "heading_deg"
                    [] OTHER -> ""
        ELSE ""

\* The slot the Parameter-Update Extractor writes for this text ("" when it writes none)
extract_target(self, user_input) ==
    LET text == Scanned[user_input]
    IN  IF ~text.has_number THEN ""
        ELSE IF text.altitude THEN "altitude_ft"
        ELSE IF text.speed THEN "speed_value"
        ELSE IF text.heading THEN "heading_deg"
        ELSE IF Truthy(self.current_intent)
             THEN CASE self.current_intent = Str("change_altitude") -> "altitude_ft"
                    [] self.current_intent = Str("change_speed") -> "speed_value"
                    [] self.current_intent = Str("change_direction") -> "heading_deg"
                    [] OTHER -> ""
        ELSE ""

extract_parameter_updates(self, user_input) ==
    Let(extract_target(self, user_input),
        LAMBDA target :
            IF target = "" THEN self
            ELSE [self EXCEPT !.slots = Put(@, target, Num(Scanned[user_input].number))])

\* A faulty assignment, which lacks the `if intent:` test and stores None for
\* an empty intent
set_intent_unguarded(self, intent) ==
    [self EXCEPT !.current_intent = IF intent # "" THEN Str(intent) ELSE None]

\* `if intent: self.current_intent = intent`
set_intent(self, intent) ==
    IF intent # "" THEN [self EXCEPT !.current_intent = Str(intent)] ELSE self

\* A faulty handler, which stores the intent before it runs the extractor
handle_correction_intent_first(self, intent, parameters, user_input) ==
    Let(extract_parameter_updates(set_intent(self, intent), user_input),
        LAMBDA s1 : [s1 EXCEPT !.slots = MergeNonNull(@, parameters)])

handle_correction(self, intent, parameters, user_input) ==
    Let(extract_parameter_updates(self, user_input),
        LAMBDA s1 : [set_intent(s1, intent) EXCEPT !.slots = MergeNonNull(@, parameters)])

\* A faulty update, which empties the slots when the intent changes
update_intent_and_slots_clearing(self, intent, parameters) ==
    IF intent # "" /\ self.current_intent # Str(intent)
    THEN [set_intent(self, intent) EXCEPT !.slots = MergeNonNull(EmptyDict, parameters)]
    ELSE [set_intent(self, intent) EXCEPT !.slots = MergeNonNull(@, parameters)]

update_intent_and_slots(self, intent, parameters) ==
    [set_intent(self, intent) EXCEPT !.slots = MergeNonNull(@, parameters)]

AircraftEntity(turn) == [t |-> "dict", type |-> "aircraft", mentioned_in_turn |-> turn]

WaypointEntity(name, turn) ==
    [t |-> "dict", type |-> "waypoint", name |-> name, mentioned_in_turn |-> turn]

\* `if parameters.get(key): entity_references[name] = parameters[key]`
RecordLast(refs, parameters, key, name) ==
    IF Truthy(Get(parameters, key)) THEN Put(refs, name, parameters[key]) ELSE refs

\* extract_entities, lines 192-208: the aircraft and the waypoint reference
record_mentions(refs, text, turn) ==
    Let(IF text.aircraft THEN Put(refs, "aircraft", AircraftEntity(turn)) ELSE refs,
        LAMBDA r1 :
            IF text.waypoint # ""
            THEN Put(r1, text.waypoint, WaypointEntity(text.waypoint, turn))
            ELSE r1)

\* extract_entities, lines 210-216: the last altitude, speed and heading
record_last_values(refs, parameters) ==
    Let(RecordLast(refs, parameters, "altitude_ft", "last_altitude"),
        LAMBDA r3 :
            Let(RecordLast(r3, parameters, "speed_value", "last_speed"),
                LAMBDA r4 : RecordLast(r4, parameters, "heading_deg", "last_heading")))

extract_entities(self, user_input, intent, parameters) ==
    Let(record_mentions(self.entity_references, Scanned[user_input], self.turn_count),
        LAMBDA r2 : [self EXCEPT !.entity_references = record_last_values(r2, parameters)])

\* A faulty fill, which lacks the `resolved.get(key) is None` test
FillOverwriting(resolved, source, keys) ==
    [k \in (DOMAIN resolved) \cup {x \in keys : x \in DOMAIN source} |->
        IF k \in keys /\ k \in DOMAIN source THEN source[k] ELSE resolved[k]]

\* fill the keys of `resolved` that are None or missing from `source`, for the keys given
FillNull(resolved, source, keys) ==
    [k \in (DOMAIN resolved) \cup {x \in keys : x \in DOMAIN source /\ Get(resolved, x) = None} |->
        IF k \in keys /\ k \in DOMAIN source /\ Get(resolved, k) = None
        THEN source[k] ELSE resolved[k]]

coref_keys == {"altitude_ft", "speed_value", "heading_deg"}

\* A faulty 'it' rule, which lacks the test that every incoming parameter is None
resolve_it_with_values(self, user_input, parameters, resolved) ==
    IF /\ Scanned[user_input].it
       /\ Truthy(self.current_intent)
    THEN FillNull(resolved, self.slots, coref_keys)
    ELSE resolved

\* _resolve_coreferences, lines 232-241
resolve_it(self, user_input, parameters, resolved) ==
    IF /\ Scanned[user_input].it
       /\ Truthy(self.current_intent)
       /\ ~(\E k \in DOMAIN parameters : parameters[k] # None)
    THEN FillNull(resolved, self.slots, coref_keys)
    ELSE resolved

\* A faulty ordinal rule, which reads the first turn for every ordinal word
resolve_ordinal_any_word(self, user_input, resolved) ==
    IF /\ Scanned[user_input].ordinal # ""
       /\ Len(self.conversation_history) > 0
    THEN Let(self.conversation_history[1].parameters,
             LAMBDA first_params :
                 FillNull(resolved, first_params,
                          {k \in DOMAIN first_params : first_params[k] # None}))
    ELSE resolved

\* _resolve_coreferences, lines 250-262
resolve_ordinal(self, user_input, resolved) ==
    IF /\ Scanned[user_input].ordinal = "first"
       /\ Len(self.conversation_history) > 0
    THEN Let(self.conversation_history[1].parameters,
             LAMBDA first_params :
                 FillNull(resolved, first_params,
                          {k \in DOMAIN first_params : first_params[k] # None}))
    ELSE resolved

last_names ==
    [altitude_ft |-> "last_altitude", speed_value |-> "last_speed", heading_deg |-> "last_heading"]

\* the last_* references, keyed by the parameter each one fills
LastReferences(refs) ==
    [k \in {x \in coref_keys : last_names[x] \in DOMAIN refs} |-> refs[last_names[k]]]

\* _resolve_coreferences, lines 264-272
resolve_that(self, user_input, resolved) ==
    IF Scanned[user_input].that
    THEN FillNull(resolved, LastReferences(self.entity_references), coref_keys)
    ELSE resolved

\* A faulty resolver, which applies the 'that' rule first and the 'it' rule last
resolve_coreferences_that_first(self, user_input, parameters) ==
    Let(resolve_that(self, user_input, parameters),
        LAMBDA r1 :
            Let(resolve_ordinal(self, user_input, r1),
                LAMBDA r2 : resolve_it(self, user_input, parameters, r2)))

resolve_coreferences(self, user_input, parameters) ==
    Let(resolve_it(self, user_input, parameters, parameters),
        LAMBDA r1 :
            Let(resolve_ordinal(self, user_input, r1),
                LAMBDA r2 : resolve_that(self, user_input, r2)))

\* A faulty resolver, which fills the mapping it is given
parameters_after_resolve_in_place(parameters, resolved) == resolved

\* _resolve_coreferences, line 229: the caller's mapping after the call; the
\* rules write to a copy of it
parameters_after_resolve(parameters, resolved) == parameters

\* A faulty table, with the two slots of change_direction in the other order
required_slots_reordered ==
    [change_speed |-> <<"speed_value">>,
     change_altitude |-> <<"altitude_ft">>,
     change_direction |-> <<"direction", "heading_deg">>]

required_slots ==
    [change_speed |-> <<"speed_value">>,
     change_altitude |-> <<"altitude_ft">>,
     change_direction |-> <<"heading_deg", "direction">>]

\* required_slots.get(current_intent, [])
required(current_intent) ==
    IF current_intent.t = "str" /\ current_intent.s \in DOMAIN required_slots
    THEN required_slots[current_intent.s] ELSE << >>

\* A faulty update, which lists every required slot, filled or not
update_pending_slots_unfiltered(self) ==
    IF ~Truthy(self.current_intent) THEN [self EXCEPT !.pending_slots = << >>]
    ELSE [self EXCEPT !.pending_slots = required(self.current_intent)]

update_pending_slots(self) ==
    IF ~Truthy(self.current_intent) THEN [self EXCEPT !.pending_slots = << >>]
    ELSE [self EXCEPT !.pending_slots =
            SelectSeq(required(self.current_intent),
                      LAMBDA slot : slot \notin DOMAIN self.slots \/ self.slots[slot] = None)]

get_state(self) ==
    [current_intent |-> self.current_intent,
     slots |-> self.slots,
     pending_slots |-> self.pending_slots,
     turn_count |-> self.turn_count,
     last_action |-> self.last_action,
     has_context |-> Len(self.conversation_history) > 0]

\* get_state, lines 304-305: the containers of the snapshot that are copies; any
\* other container of the snapshot would be the tracker's own object
snapshot_copies == {"slots", "pending_slots"}

\* get_context_for_parser, lines 323-329: the lines for the last three turns
recent_history(self) ==
    Let(Len(self.conversation_history),
        LAMBDA n :
            [i \in 1..(IF n < 3 THEN n ELSE 3) |->
                [literal |-> "Turn ", value |-> self.conversation_history[n - (IF n < 3 THEN n ELSE 3) + i]]])

\* get_context_for_parser, lines 332-337: the lines for the current state
state_lines(self) ==
    (IF Truthy(self.current_intent)
     THEN <<[literal |-> "Current intent: ", value |-> self.current_intent]>> ELSE << >>)
    \o (IF self.slots # EmptyDict
        THEN <<[literal |-> "Filled slots: ", value |-> self.slots]>> ELSE << >>)
    \o (IF self.pending_slots # << >>
        THEN <<[literal |-> "Pending slots: ", value |-> self.pending_slots]>> ELSE << >>)

\* A faulty digest, which leaves out the lines of the turns
get_context_for_parser_state_only(self) ==
    IF Len(self.conversation_history) = 0 THEN << >>
    ELSE state_lines(self)

\* get_context_for_parser: the lines of the string returned, each a literal
\* followed by the value it formats; the string is "\n".join of the lines, and
\* is empty exactly when there is no line
get_context_for_parser(self) ==
    IF Len(self.conversation_history) = 0 THEN << >>
    ELSE recent_history(self) \o state_lines(self)

\* The intent names in play, and str.lower() of each, computed once
Intents ==
    {"", "status", "takeoff", "change_altitude", "change_speed", "change_direction",
     "Change_Speed"}

Lowered == [s \in Intents |-> Lower(s)]

\* `x is None`, for a value that may also be a dict
IsNone(x) == "t" \in DOMAIN x /\ x.t = "None"

\* parsed_command.get('intent', '').lower(), for an intent that is a string or missing
intent_of(parsed_command) ==
    IF "intent" \in DOMAIN parsed_command THEN Lowered[parsed_command["intent"].s] ELSE ""

\* A faulty read, parsed_command.get('parameters') with no default
parameters_of_without_default(parsed_command) ==
    IF "parameters" \in DOMAIN parsed_command THEN parsed_command["parameters"] ELSE None

\* parsed_command.get('parameters', {})
parameters_of(parsed_command) ==
    IF "parameters" \in DOMAIN parsed_command THEN parsed_command["parameters"] ELSE EmptyDict

\* The record update_state appends to conversation_history (the timestamp, which
\* nothing reads, is left out)
history_record(self, parsed_command, user_input) ==
    [turn |-> self.turn_count,
     user_input |-> user_input,
     intent |-> Get(parsed_command, "intent"),
     parameters |-> parameters_of(parsed_command)]

\* A faulty start of the turn, which records the intent a correction is re-pointed at
begin_turn_recording_override(self, parsed_command, user_input) ==
    [self EXCEPT !.turn_count = @ + 1,
                 !.conversation_history =
                     Append(@, history_record([turn_count |-> self.turn_count + 1],
                                              IF /\ Scanned[user_input].correction
                                                 /\ Get(parsed_command, "intent") \in
                                                        {None, Str(""), Str("status")}
                                                 /\ Truthy(self.current_intent)
                                              THEN Put(parsed_command, "intent",
                                                       self.current_intent)
                                              ELSE parsed_command,
                                              user_input))]

\* update_state, lines 45-54: count the turn and store it in the history
begin_turn(self, parsed_command, user_input) ==
    [self EXCEPT !.turn_count = @ + 1,
                 !.conversation_history =
                     Append(@, history_record([turn_count |-> self.turn_count + 1],
                                              parsed_command, user_input))]

\* update_state, lines 60-66: on a correction whose intent is empty or 'status',
\* the previous intent is used
intent_overridden(self, parsed_command, user_input) ==
    /\ is_correction(user_input)
    /\ intent_of(parsed_command) \in {"", "status"}
    /\ Truthy(self.current_intent)

\* update_state, lines 56-74: steps 2 and 3, the state after the correction
\* handling or the normal update
apply_parsed(self, parsed_command, user_input) ==
    IF is_correction(user_input)
    THEN handle_correction(self,
                           IF intent_overridden(self, parsed_command, user_input)
                           THEN Lowered[self.current_intent.s]
                           ELSE intent_of(parsed_command),
                           parameters_of(parsed_command), user_input)
    ELSE update_intent_and_slots(self, intent_of(parsed_command),
                                 parameters_of(parsed_command))

\* update_state, lines 69-71: the intent after steps 2 and 3
turn_intent(s3, parsed_command, user_input) ==
    IF is_correction(user_input) /\ Truthy(s3.current_intent)
    THEN Lowered[s3.current_intent.s]
    ELSE intent_of(parsed_command)

\* update_state, lines 79-85: the resolved parameters are merged into the slots
merge_resolved(s4, parsed_command, user_input) ==
    [s4 EXCEPT !.slots =
        MergeNonNull(@, resolve_coreferences(s4, user_input, parameters_of(parsed_command)))]

\* A faulty end of the turn, which does not recompute the pending slots
finish_turn_without_pending(s3, parsed_command, user_input) ==
    Let(turn_intent(s3, parsed_command, user_input),
        LAMBDA intent :
            Let(extract_entities(s3, user_input, intent, parameters_of(parsed_command)),
                LAMBDA s4 :
                    Let(merge_resolved(s4, parsed_command, user_input),
                        LAMBDA s5 : set_intent(s5, intent))))

\* update_state, lines 76-92: step 4 and 5, from the state steps 2 and 3 left
finish_turn(s3, parsed_command, user_input) ==
    Let(turn_intent(s3, parsed_command, user_input),
        LAMBDA intent :
            Let(extract_entities(s3, user_input, intent, parameters_of(parsed_command)),
                LAMBDA s4 :
                    Let(merge_resolved(s4, parsed_command, user_input),
                        LAMBDA s5 :
                            Let(set_intent(s5, intent),
                                LAMBDA s6 : update_pending_slots(s6)))))

\* update_state: the object after the call, the caller's parsed_command after the
\* call, the value returned, and whether the call raised (an AttributeError on a
\* None 'parameters' at line 52, or on a None 'intent' at line 56)
update_state(self, parsed_command, user_input) ==
    IF IsNone(parameters_of(parsed_command))
    THEN [self |-> [self EXCEPT !.turn_count = @ + 1],
          parsed_command |-> parsed_command, ret |-> None, raised |-> TRUE]
    ELSE IF IsNone(Get(parsed_command, "intent")) /\ "intent" \in DOMAIN parsed_command
    THEN [self |-> begin_turn(self, parsed_command, user_input),
          parsed_command |-> parsed_command, ret |-> None, raised |-> TRUE]
    ELSE Let(begin_turn(self, parsed_command, user_input),
             LAMBDA s2 :
                 Let(finish_turn(apply_parsed(s2, parsed_command, user_input),
                                 parsed_command, user_input),
                     LAMBDA s7 :
                         [self |-> s7,
                          parsed_command |->
                              IF intent_overridden(s2, parsed_command, user_input)
                              THEN Put(parsed_command, "intent", s2.current_intent)
                              ELSE parsed_command,
                          ret |-> get_state(s7), raised |-> FALSE]))

\* A faulty choice, which replaces 'status' whether or not the text is a correction
merged_intent_replacing_status(self, parsed_command) ==
    IF intent_of(parsed_command) \in {"", "status"} /\ Truthy(self.current_intent)
    THEN self.current_intent
    ELSE Get(parsed_command, "intent")

\* merge_parsed_with_state, lines 359-368: the intent of the merged command
merged_intent(self, parsed_command) ==
    LET intent == intent_of(parsed_command)
        original_input == IF "_original_input" \in DOMAIN parsed_command
                          THEN parsed_command["_original_input"].s ELSE ""
        correction == IF original_input # "" THEN is_correction(original_input) ELSE FALSE
    IN  IF correction /\ intent \in {"", "status"} /\ Truthy(self.current_intent)
        THEN self.current_intent
        ELSE IF intent = "" /\ Truthy(self.current_intent)
        THEN self.current_intent
        ELSE Get(parsed_command, "intent")

\* A faulty fill, in which a stored slot replaces the parsed value
merged_parameters_overwriting(self, parameters) ==
    [k \in (DOMAIN parameters) \cup (DOMAIN self.slots) |->
        IF k \in DOMAIN self.slots THEN self.slots[k] ELSE parameters[k]]

\* merge_parsed_with_state, lines 370-373: the parameters filled from the slots
merged_parameters(self, parameters) ==
    [k \in (DOMAIN parameters) \cup {x \in DOMAIN self.slots : self.slots[x] # None} |->
        IF Get(parameters, k) = None /\ k \in DOMAIN self.slots /\ self.slots[k] # None
        THEN self.slots[k] ELSE parameters[k]]

\* merge_parsed_with_state: the value returned, the caller's parsed_command after
\* the call (the parameters dict is shared with the copy), and whether the call
\* raised (None 'intent' at line 354; None 'parameters' at line 372 once a slot
\* is stored)
merge_parsed_with_state(self, parsed_command) ==
    IF IsNone(Get(parsed_command, "intent")) /\ "intent" \in DOMAIN parsed_command
    THEN [self |-> self, parsed_command |-> parsed_command, ret |-> None, raised |-> TRUE]
    ELSE IF IsNone(parameters_of(parsed_command))
    THEN IF DOMAIN self.slots # {}
         THEN [self |-> self, parsed_command |-> parsed_command, ret |-> None, raised |-> TRUE]
         ELSE [self |-> self, parsed_command |-> parsed_command,
               ret |-> IF merged_intent(self, parsed_command) = Get(parsed_command, "intent")
                       THEN parsed_command
                       ELSE Put(parsed_command, "intent", merged_intent(self, parsed_command)),
               raised |-> FALSE]
    ELSE LET parameters == merged_parameters(self, parameters_of(parsed_command))
             intent == merged_intent(self, parsed_command)
             with_intent == IF intent = Get(parsed_command, "intent")
                            THEN parsed_command
                            ELSE Put(parsed_command, "intent", intent)
         IN  [self |-> self,
              parsed_command |-> IF "parameters" \in DOMAIN parsed_command
                                 THEN Put(parsed_command, "parameters", parameters)
                                 ELSE parsed_command,
              ret |-> Put(with_intent, "parameters", parameters),
              raised |-> FALSE]

\* A faulty reset, which keeps the entity references
reset_state_keeping_references(self) ==
    [NewTracker EXCEPT !.entity_references = self.entity_references]

reset_state(self) == NewTracker

set_last_action(self, action) == [self EXCEPT !.last_action = action]

\* main, lines 204-208: on a correction the application re-points an empty or
\* 'status' intent at the tracker's current intent before merging
main_fix_intent(self, parsed_command, user_input) ==
    IF /\ is_correction(user_input)
       /\ \/ ~Truthy(Get(parsed_command, "intent"))
          \/ Lowered[parsed_command["intent"].s] = "status"
       /\ Truthy(self.current_intent)
    THEN Put(parsed_command, "intent", self.current_intent)
    ELSE parsed_command

\* main, lines 218-225: the command handed to the executor
main_final_command(self, merged_command) ==
    [intent |-> IF Truthy(self.current_intent) THEN self.current_intent
                ELSE Get(merged_command, "intent"),
     parameters |-> MergeNonNull(self.slots, parameters_of(merged_command))]

\* A faulty pass, which records the last action whatever the executor reports
main_executed_recording_failures(m, u, success) ==
    IF u.raised
    THEN [self |-> u.self, parsed_command |-> m.parsed_command,
          merged_command |-> u.parsed_command, final_command |-> None, raised |-> TRUE]
    ELSE Let(main_final_command(u.self, u.parsed_command),
             LAMBDA final_command :
                 [self |-> set_last_action(u.self, final_command.intent),
                  parsed_command |-> m.parsed_command,
                  merged_command |-> u.parsed_command,
                  final_command |-> final_command, raised |-> FALSE])

\* main, lines 216-240: after update_state, the final command is built and
\* executed, and a successful execution is recorded as the last action
main_executed(m, u, success) ==
    IF u.raised
    THEN [self |-> u.self, parsed_command |-> m.parsed_command,
          merged_command |-> u.parsed_command, final_command |-> None, raised |-> TRUE]
    ELSE Let(main_final_command(u.self, u.parsed_command),
             LAMBDA final_command :
                 [self |-> IF success THEN set_last_action(u.self, final_command.intent)
                           ELSE u.self,
                  parsed_command |-> m.parsed_command,
                  merged_command |-> u.parsed_command,
                  final_command |-> final_command, raised |-> FALSE])

\* main, lines 201-240: one pass of the command loop on what the parser returned.
\* An exception of the tracker is caught by the loop (line 262) and the pass ends.
main_turn(self, parsed_command, user_input, success) ==
    Let(main_fix_intent(self, Put(parsed_command, "_original_input", Str(user_input)),
                        user_input),
        LAMBDA p2 :
            Let(merge_parsed_with_state(self, p2),
                LAMBDA m :
                    IF m.raised
                    THEN [self |-> self, parsed_command |-> p2, merged_command |-> None,
                          final_command |-> None, raised |-> TRUE]
                    ELSE Let(update_state(self, m.ret, user_input),
                             LAMBDA u : main_executed(m, u, success))))

\* ------------------------------------------------------------------------
\* The inputs: what the parser may return, and what the user may say

MaxCalls == 2

Command(intent, parameters) == [intent |-> intent, parameters |-> parameters]

Commands ==
    {Command(Str("change_altitude"), [altitude_ft |-> Num(10000)]),
     Command(Str("Change_Speed"), [speed_value |-> Num(220)]),
     Command(Str("change_direction"), [heading_deg |-> Num(90)]),
     Command(Str("change_direction"), [heading_deg |-> Num(0)]),
     Command(Str("change_direction"), [direction |-> Str("left"), heading_deg |-> None]),
     Command(Str("change_direction"), EmptyDict),
     Command(Str("status"), EmptyDict),
     Command(Str(""), [altitude_ft |-> None]),
     [parameters |-> [speed_value |-> None]],
     [intent |-> Str("takeoff")],
     Command(Str("takeoff"), None),
     Command(None, EmptyDict)}

Actions == {Str("change_altitude"), Str("status")}

\* The commands merge_parsed_with_state may be given: those above, and commands
\* that carry the raw text under '_original_input' (main, line 201)
MergeCommands ==
    Commands \cup
    {Put(Command(Str("status"), EmptyDict), "_original_input", Str("actually make it 12000")),
     Put(Command(Str("status"), EmptyDict), "_original_input", Str("climb to 10000 feet")),
     Put(Command(Str("takeoff"), EmptyDict), "_original_input", Str("actually make it 12000"))}

\* ------------------------------------------------------------------------
\* The state: the tracker's fields, and the last call made on it

VARIABLES current_intent, slots, conversation_history, pending_slots,
          entity_references, last_action, turn_count, call, calls, other

fields == <<current_intent, slots, conversation_history, pending_slots,
            entity_references, last_action, turn_count>>

vars == <<fields, call, calls, other>>

\* the tracker object; `other` is a second tracker, the one of another session
Self ==
    [current_intent |-> current_intent,
     slots |-> slots,
     conversation_history |-> conversation_history,
     pending_slots |-> pending_slots,
     entity_references |-> entity_references,
     last_action |-> last_action,
     turn_count |-> turn_count]

Becomes(self) ==
    /\ current_intent' = self.current_intent
    /\ slots' = self.slots
    /\ conversation_history' = self.conversation_history
    /\ pending_slots' = self.pending_slots
    /\ entity_references' = self.entity_references
    /\ last_action' = self.last_action
    /\ turn_count' = self.turn_count

Init ==
    /\ current_intent = NewTracker.current_intent
    /\ slots = NewTracker.slots
    /\ conversation_history = NewTracker.conversation_history
    /\ pending_slots = NewTracker.pending_slots
    /\ entity_references = NewTracker.entity_references
    /\ last_action = NewTracker.last_action
    /\ turn_count = NewTracker.turn_count
    /\ call = [op |-> "__init__"]
    /\ calls = 0
    /\ other = NewTracker

\* one more call on the tracker, while the bound allows it
Called ==
    /\ calls < MaxCalls
    /\ calls' = calls + 1

UpdateState(parsed_command, user_input) ==
    /\ Called
    /\ \E r \in {update_state(Self, parsed_command, user_input)} :
           /\ Becomes(r.self)
           /\ call' = [op |-> "update_state", parsed_command |-> parsed_command,
                       user_input |-> user_input, after |-> r.parsed_command,
                       ret |-> r.ret, raised |-> r.raised]
           /\ other' = Seen(other, r.self)

MergeParsedWithState(parsed_command) ==
    /\ Called
    /\ \E r \in {merge_parsed_with_state(Self, parsed_command)} :
           /\ Becomes(r.self)
           /\ call' = [op |-> "merge_parsed_with_state", parsed_command |-> parsed_command,
                       after |-> r.parsed_command, ret |-> r.ret, raised |-> r.raised]
    /\ UNCHANGED other

SetLastAction(action) ==
    /\ Called
    /\ Becomes(set_last_action(Self, action))
    /\ call' = [op |-> "set_last_action", action |-> action]
    /\ UNCHANGED other

ResetState ==
    /\ Called
    /\ Becomes(reset_state(Self))
    /\ call' = [op |-> "reset_state", before |-> Self]
    /\ UNCHANGED other

GetState ==
    /\ Called
    /\ Becomes(Self)
    /\ call' = [op |-> "get_state", ret |-> get_state(Self)]
    /\ UNCHANGED other

\* What the caller may do to a snapshot: snapshot['slots'][key] = value, or
\* snapshot['pending_slots'].append(key)
SnapshotChanges == {[field |-> "slots", key |-> "altitude_ft", value |-> Num(500)],
                    [field |-> "pending_slots", key |-> "altitude_ft", value |-> None]}

changed_container(container, change) ==
    IF change.field = "slots" THEN Put(container, change.key, change.value)
    ELSE Append(container, change.key)

\* The caller changes a container of the snapshot that the last call returned.
\* A container that get_state copied is the caller's alone; one it did not copy
\* is the tracker's object, and the change shows in the tracker.
MutateSnapshot(change) ==
    /\ Called
    /\ call.op \in {"get_state", "update_state"}
    /\ ~IsNone(call.ret)
    /\ \E changed \in {changed_container(call.ret[change.field], change)} :
           /\ Becomes(IF change.field \in snapshot_copies THEN Self
                      ELSE [Self EXCEPT ![change.field] = changed])
           /\ call' = [op |-> "mutate_snapshot", change |-> change,
                       ret |-> [call.ret EXCEPT ![change.field] = changed]]
    /\ UNCHANGED other

\* The texts is_correction is asked about on its own
QueryTexts == {"climb to 10000 feet", "Actually make it 8000 feet"}

IsCorrection(user_input) ==
    /\ Called
    /\ Becomes(Self)
    /\ call' = [op |-> "is_correction", user_input |-> user_input,
                ret |-> is_correction(user_input)]
    /\ UNCHANGED other

GetContextForParser ==
    /\ Called
    /\ Becomes(Self)
    /\ call' = [op |-> "get_context_for_parser", ret |-> get_context_for_parser(Self)]
    /\ UNCHANGED other

Next ==
    \/ \E parsed_command \in Commands, user_input \in Texts :
           UpdateState(parsed_command, user_input)
    \/ \E user_input \in QueryTexts : IsCorrection(user_input)
    \/ GetContextForParser
    \/ \E parsed_command \in MergeCommands : MergeParsedWithState(parsed_command)
    \/ \E action \in Actions : SetLastAction(action)
    \/ ResetState
    \/ GetState
    \/ \E change \in SnapshotChanges : MutateSnapshot(change)

Spec == Init /\ [][Next]_vars

\* The Parameter-Update Extractor on its own: _extract_parameter_updates called
\* on a tracker that has processed ordinary turns
ExtractorCommands ==
    {Command(Str("change_altitude"), [altitude_ft |-> Num(10000)]),
     Command(Str("Change_Speed"), [speed_value |-> Num(220)]),
     Command(Str("change_direction"), [heading_deg |-> Num(90)]),
     Command(Str("status"), EmptyDict),
     [intent |-> Str("takeoff")]}

ExtractParameterUpdates(user_input) ==
    /\ Called
    /\ Becomes(extract_parameter_updates(Self, user_input))
    /\ call' = [op |-> "_extract_parameter_updates", user_input |-> user_input]
    /\ UNCHANGED other

NextExtractor ==
    \/ \E parsed_command \in ExtractorCommands : UpdateState(parsed_command, "climb to 10000 feet")
    \/ \E user_input \in ExtractorTexts : ExtractParameterUpdates(user_input)

SpecExtractor == Init /\ [][NextExtractor]_vars

\* The Coreference Resolver on its own: _resolve_coreferences called on a tracker
\* that has processed turns
ResolverCommands ==
    {Command(Str("change_altitude"), [altitude_ft |-> Num(10000)]),
     Command(Str("change_altitude"), [altitude_ft |-> Num(5000)]),
     Command(Str(""), [speed_value |-> Num(220)]),
     Command(Str("change_direction"), [direction |-> Str("left"), heading_deg |-> None]),
     Command(Str(""), [altitude_ft |-> None])}

ResolverSetupTexts == {"climb to 10000 feet", "actually make it 12000"}

ResolverParameters ==
    {EmptyDict,
     [altitude_ft |-> None],
     [altitude_ft |-> None, speed_value |-> Num(250)],
     [altitude_ft |-> Num(3000)],
     [heading_deg |-> None, direction |-> None]}

\* The call changes no field of the tracker, and is not counted as a call that
\* may change the tracker
ResolveCoreferences(user_input, parameters) ==
    /\ \E resolved \in {resolve_coreferences(Self, user_input, parameters)} :
           call' = [op |-> "_resolve_coreferences", user_input |-> user_input,
                    parameters |-> parameters,
                    after |-> parameters_after_resolve(parameters, resolved),
                    ret |-> resolved]
    /\ UNCHANGED <<fields, calls, other>>

NextResolver ==
    \/ \E parsed_command \in ResolverCommands, user_input \in ResolverSetupTexts :
           UpdateState(parsed_command, user_input)
    \/ \E user_input \in ResolverTexts, parameters \in ResolverParameters :
           ResolveCoreferences(user_input, parameters)

SpecResolver == Init /\ [][NextResolver]_vars

\* Two sessions: the calls above are made on the first tracker, the calls below
\* on the tracker of the other session, in any interleaving
SessionCommands ==
    {Command(Str("change_altitude"), [altitude_ft |-> Num(10000)]),
     Command(Str("change_direction"), [heading_deg |-> Num(90)]),
     Command(Str("status"), EmptyDict),
     Command(Str("takeoff"), None)}

SessionTexts == {"climb to 10000 feet", "actually make it 12000", "waypoint last_altitude that"}

OtherUpdateState(parsed_command, user_input) ==
    /\ Called
    /\ \E r \in {update_state(other, parsed_command, user_input)} :
           /\ other' = r.self
           /\ Becomes(Seen(Self, r.self))
           /\ call' = [op |-> "other.update_state", parsed_command |-> parsed_command,
                       user_input |-> user_input, after |-> r.parsed_command,
                       ret |-> r.ret, raised |-> r.raised]

OtherMergeParsedWithState(parsed_command) ==
    /\ Called
    /\ \E r \in {merge_parsed_with_state(other, parsed_command)} :
           /\ other' = r.self
           /\ call' = [op |-> "other.merge_parsed_with_state",
                       parsed_command |-> parsed_command,
                       after |-> r.parsed_command, ret |-> r.ret, raised |-> r.raised]
    /\ UNCHANGED fields

OtherSetLastAction(action) ==
    /\ Called
    /\ other' = set_last_action(other, action)
    /\ call' = [op |-> "other.set_last_action", action |-> action]
    /\ UNCHANGED fields

OtherResetState ==
    /\ Called
    /\ other' = reset_state(other)
    /\ call' = [op |-> "other.reset_state", before |-> other]
    /\ UNCHANGED fields

NextSessions ==
    \/ \E parsed_command \in SessionCommands, user_input \in SessionTexts :
           \/ UpdateState(parsed_command, user_input)
           \/ OtherUpdateState(parsed_command, user_input)
    \/ \E parsed_command \in SessionCommands :
           \/ MergeParsedWithState(parsed_command)
           \/ OtherMergeParsedWithState(parsed_command)
    \/ \E action \in Actions : SetLastAction(action) \/ OtherSetLastAction(action)
    \/ ResetState
    \/ OtherResetState

SpecSessions == Init /\ [][NextSessions]_vars

\* The application loop: each pass parses one utterance and runs main_turn; the
\* parser always returns a non-empty intent (nlp_parser.parse_command)
ParserCommands == {c \in Commands : "intent" \in DOMAIN c /\ Truthy(c["intent"])}

MainTurn(parsed_command, user_input, success) ==
    /\ Called
    /\ \E r \in {main_turn(Self, parsed_command, user_input, success)} :
           /\ Becomes(r.self)
           /\ call' = [op |-> "main", parsed_command |-> parsed_command,
                       user_input |-> user_input, after |-> r.parsed_command,
                       merged_command |-> r.merged_command,
                       final_command |-> r.final_command,
                       success |-> success, raised |-> r.raised]
    /\ UNCHANGED other

\* main, lines 153-156: the user says 'reset'
MainReset ==
    /\ Called
    /\ Becomes(reset_state(Self))
    /\ call' = [op |-> "reset_state", before |-> Self]
    /\ UNCHANGED other

NextMain ==
    \/ \E parsed_command \in ParserCommands, user_input \in Texts, success \in BOOLEAN :
           MainTurn(parsed_command, user_input, success)
    \/ MainReset

SpecMain == Init /\ [][NextMain]_vars

\* ------------------------------------------------------------------------
\* Properties of update_state (C1 to C3, C5) and of the application loop (C4)

\* the last call was an update_state that returned: a processed turn
Turn == call.op = "update_state" /\ ~call.raised

\* this step is an update_state that returns
TurnStep == call'.op = "update_state" /\ ~call'.raised

\* this step is a pass of the application loop that reaches the executor
MainStep == call'.op = "main" /\ ~call'.raised

\* on this step the Parameter-Update Extractor writes the number of the text to slot k
Extracted(k) ==
    /\ is_correction(call'.user_input)
    /\ extract_target(Self, call'.user_input) = k

\* on this step the 'first one' rule has a first-turn value for k
FirstSupplies(k) ==
    /\ Scanned[call'.user_input].ordinal = "first"
    /\ Get(conversation_history'[1].parameters, k) # None

\* on this step the 'that' rule has a last_* reference for k
ThatSupplies(k) ==
    /\ Scanned[call'.user_input].that
    /\ k \in coref_keys
    /\ last_names[k] \in DOMAIN entity_references'

\* C1, as stated: on every processed turn, a slot whose parsed parameter is None
\* or missing keeps the value it had before the turn.
C1_NullNeverOverwrites ==
    [][TurnStep =>
        \A k \in DOMAIN slots :
            (slots[k] # None /\ Get(parameters_of(call'.parsed_command), k) = None)
                => slots'[k] = slots[k]]_vars

\* C1, amended: on every processed turn, a slot whose parsed parameter is None or
\* missing keeps the value it had before the turn, unless the turn is a correction
\* whose number the extractor routes to that slot, or the text triggers the
\* 'first one' or the 'that' rule and the rule has a value for that slot.
C1_NullKeepsUnsuppliedSlot ==
    [][TurnStep =>
        \A k \in DOMAIN slots :
            (/\ slots[k] # None
             /\ Get(parameters_of(call'.parsed_command), k) = None
             /\ ~Extracted(k)
             /\ ~FirstSupplies(k)
             /\ ~ThatSupplies(k))
                => slots'[k] = slots[k]]_vars

\* C1: a second turn arrived with altitude_ft None after the first turn had stored
\* 10000, and 10000 is still stored
C1_Witness ==
    /\ Turn
    /\ turn_count = 2
    /\ Len(conversation_history) = 2
    /\ conversation_history[1].parameters = [altitude_ft |-> Num(10000)]
    /\ parameters_of(call.parsed_command) = [altitude_ft |-> None]
    /\ Get(slots, "altitude_ft") = Num(10000)

\* the keys steps 2 and 3 of update_state write: the extractor's slot on a
\* correction, and every non-None parsed parameter
WrittenBeforeStep4(self, parsed_command, user_input) ==
    {k \in DOMAIN parameters_of(parsed_command) : parameters_of(parsed_command)[k] # None}
    \cup (IF is_correction(user_input) THEN {extract_target(self, user_input)} \ {""} ELSE {})

\* C2: on every processed turn, each slot written by step 2 or 3 (by the extractor
\* included) holds at the end of the turn the value it held when step 3 ended.
C2_CoreferenceKeepsWrittenSlots ==
    [][TurnStep =>
        \E s3 \in {apply_parsed(begin_turn(Self, call'.parsed_command, call'.user_input),
                                call'.parsed_command, call'.user_input)} :
            \A k \in WrittenBeforeStep4(Self, call'.parsed_command, call'.user_input) :
                slots'[k] = s3.slots[k]]_vars

\* C3: after every processed turn, each key whose parsed parameter is not None is
\* stored in the slots with that value.
C3_ExplicitValueWins ==
    Turn =>
        \A k \in DOMAIN parameters_of(call.parsed_command) :
            parameters_of(call.parsed_command)[k] # None
                => Get(slots, k) = parameters_of(call.parsed_command)[k]

\* C3: a correction whose text routes another number to altitude_ft came with an
\* explicit altitude_ft, and the explicit one is stored
C3_Witness ==
    /\ Turn
    /\ is_correction(call.user_input)
    /\ Scanned[call.user_input].altitude
    /\ Scanned[call.user_input].has_number
    /\ Get(parameters_of(call.parsed_command), "altitude_ft") = Num(10000)
    /\ Scanned[call.user_input].number # 10000
    /\ Get(slots, "altitude_ft") = Num(10000)

\* C4: on every pass of the application loop whose text is a correction with a
\* number N, for the slot s the correction addresses, already stored and given no
\* value by the parser, the pass ends with slots[s] = N and with N as parameter s
\* of the final command.
C4_MainKeepsCorrection ==
    [][(MainStep /\ is_correction(call'.user_input) /\ Scanned[call'.user_input].has_number) =>
        \A s \in DOMAIN slots :
            (/\ extract_target(Self, call'.user_input) = s
             /\ Get(parameters_of(call'.parsed_command), s) = None)
                => /\ slots'[s] = Num(Scanned[call'.user_input].number)
                   /\ call'.final_command.parameters[s] = Num(Scanned[call'.user_input].number)]_vars

\* C5: in every reachable state turn_count is the length of conversation_history.
C5_TurnCountIsHistoryLength == turn_count = Len(conversation_history)

\* ------------------------------------------------------------------------
\* Properties of corrections (C6, C7), of repeated turns (C8) and of the pending
\* slots (C9, C10)

\* every parsed parameter of the call made on this step is None
AllParametersNull ==
    \A k \in DOMAIN parameters_of(call'.parsed_command) :
        parameters_of(call'.parsed_command)[k] = None

\* C6: on a correction turn whose parsed intent is empty, missing or 'status',
\* taken with a current_intent c, current_intent is still c after the turn; and
\* with c = change_altitude, a text with a number and an altitude keyword and no
\* parsed value, slots['altitude_ft'] is that number after the turn.
C6_CorrectionFallsBackToIntent ==
    [][(/\ TurnStep
        /\ Truthy(current_intent)
        /\ is_correction(call'.user_input)
        /\ intent_of(call'.parsed_command) \in {"", "status"}) =>
            /\ current_intent' = current_intent
            /\ (/\ current_intent = Str("change_altitude")
                /\ Scanned[call'.user_input].has_number
                /\ Scanned[call'.user_input].altitude
                /\ AllParametersNull)
                   => Get(slots', "altitude_ft") = Num(Scanned[call'.user_input].number)]_vars

\* the slot of each intent that takes a number
IntentSlot ==
    [change_altitude |-> "altitude_ft",
     change_speed |-> "speed_value",
     change_direction |-> "heading_deg"]

\* this step is the second turn of the two-turn correction scenario for intent I
CorrectionScenario(I) ==
    /\ TurnStep
    /\ current_intent = Str(I)
    /\ IntentSlot[I] \in DOMAIN slots
    /\ is_correction(call'.user_input)
    /\ Scanned[call'.user_input].has_number
    /\ ~Scanned[call'.user_input].altitude
    /\ ~Scanned[call'.user_input].speed
    /\ ~Scanned[call'.user_input].heading
    /\ ~Scanned[call'.user_input].that
    /\ Scanned[call'.user_input].ordinal = ""
    /\ AllParametersNull

\* C7, as stated: the second turn of the scenario ends with the slot of I equal
\* to the number of the text and with current_intent still I.
C7_CorrectionRoutesByIntent ==
    [][\A I \in DOMAIN IntentSlot :
        CorrectionScenario(I) =>
            /\ Get(slots', IntentSlot[I]) = Num(Scanned[call'.user_input].number)
            /\ current_intent' = Str(I)]_vars

\* C7, amended: the second turn of the scenario, when its parsed intent is empty,
\* missing, 'status' or I itself, ends with the slot of I equal to the number of
\* the text and with current_intent still I.
C7_CorrectionRoutesByKeptIntent ==
    [][\A I \in DOMAIN IntentSlot :
        (CorrectionScenario(I) /\ intent_of(call'.parsed_command) \in {"", "status", I}) =>
            /\ Get(slots', IntentSlot[I]) = Num(Scanned[call'.user_input].number)
            /\ current_intent' = Str(I)]_vars

\* C7: after a change_speed turn that stored 220, a correction with no keyword
\* and no parsed value has put its number in speed_value
C7_Witness ==
    /\ Turn
    /\ turn_count = 2
    /\ Len(conversation_history) = 2
    /\ conversation_history[1].parameters = [speed_value |-> Num(220)]
    /\ is_correction(call.user_input)
    /\ Scanned[call.user_input].has_number
    /\ ~Scanned[call.user_input].speed
    /\ \A k \in DOMAIN parameters_of(call.parsed_command) :
           parameters_of(call.parsed_command)[k] = None
    /\ current_intent = Str("change_speed")
    /\ Get(slots, "speed_value") = Num(Scanned[call.user_input].number)
    /\ Scanned[call.user_input].number # 220

\* C8: when a non-correction turn is processed twice in a row (same parsed
\* command, same text), the second call leaves slots as the first left them.
C8_RepeatedTurnKeepsSlots ==
    [][(/\ Turn
        /\ TurnStep
        /\ call'.parsed_command = call.parsed_command
        /\ call'.user_input = call.user_input
        /\ ~is_correction(call'.user_input)) => slots' = slots]_vars

\* the required-slot table, as the specification gives it
RequiredTable ==
    [change_speed |-> <<"speed_value">>,
     change_altitude |-> <<"altitude_ft">>,
     change_direction |-> <<"heading_deg", "direction">>]

\* the names in a list
Names(list) == {list[i] : i \in 1..Len(list)}

\* C9: in every reachable state each name in pending_slots is a required slot of
\* current_intent and is absent or None in slots, and pending_slots is empty when
\* current_intent is None or outside the table.
C9_PendingSlotsAreRequiredAndUnfilled ==
    /\ \A name \in Names(pending_slots) :
           /\ current_intent # None
           /\ current_intent.s \in DOMAIN RequiredTable
           /\ name \in Names(RequiredTable[current_intent.s])
           /\ Get(slots, name) = None
    /\ (current_intent = None \/ current_intent.s \notin DOMAIN RequiredTable)
           => pending_slots = << >>

\* C9: change_direction with heading_deg stored has only direction pending
C9_Witness ==
    /\ current_intent = Str("change_direction")
    /\ Get(slots, "heading_deg") # None
    /\ pending_slots = <<"direction">>

\* the required slot if it is not filled
Unfilled(name) == IF Get(slots, name) = None THEN <<name>> ELSE << >>

\* C10: after every update_state, pending_slots is the required list of
\* current_intent without the names filled in slots, in table order.
C10_PendingSlotsExact ==
    call.op = "update_state" =>
        pending_slots =
            CASE current_intent = Str("change_speed") -> Unfilled("speed_value")
              [] current_intent = Str("change_altitude") -> Unfilled("altitude_ft")
              [] current_intent = Str("change_direction") ->
                     Unfilled("heading_deg") \o Unfilled("direction")
              [] OTHER -> << >>

\* C10: change_direction with no slots has heading_deg, then direction, pending
C10_Witness ==
    /\ Turn
    /\ current_intent = Str("change_direction")
    /\ slots = EmptyDict
    /\ pending_slots = <<"heading_deg", "direction">>

\* ------------------------------------------------------------------------
\* Properties of reset_state (C11) and of the values stored in slots (C12)

\* C11: after reset_state every field has the value it has in a freshly
\* constructed tracker, and get_state returns the snapshot of a fresh tracker.
C11_ResetGivesFreshTracker ==
    call.op = "reset_state" =>
        /\ Self = NewTracker
        /\ get_state(Self) = get_state(NewTracker)

\* C11: reset_state was called on a tracker that had processed a turn, stored
\* a slot and a reference, and the tracker is fresh again
C11_Witness ==
    /\ call.op = "reset_state"
    /\ call.before.turn_count > 0
    /\ call.before.slots # EmptyDict
    /\ call.before.entity_references # EmptyDict
    /\ Truthy(call.before.current_intent)
    /\ Self = NewTracker

\* C12: in every reachable state no key of slots maps to None.
C12_NoNullSlot == \A k \in DOMAIN slots : slots[k] # None

\* C12: a turn whose parsed parameters hold a None was processed on top of a
\* stored slot, and no None was stored
C12_Witness ==
    /\ Turn
    /\ turn_count = 2
    /\ \E k \in DOMAIN parameters_of(call.parsed_command) :
           parameters_of(call.parsed_command)[k] = None
    /\ slots # EmptyDict
    /\ \A k \in DOMAIN slots : slots[k] # None

\* ------------------------------------------------------------------------
\* Properties of the 'that' rule (C13)

\* the parameters of the turn made on this step, as its coreference step
\* resolves them
ResolvedOnStep ==
    resolve_coreferences(
        extract_entities(
            apply_parsed(begin_turn(Self, call'.parsed_command, call'.user_input),
                         call'.parsed_command, call'.user_input),
            call'.user_input, "", parameters_of(call'.parsed_command)),
        call'.user_input, parameters_of(call'.parsed_command))

\* C13: on a turn whose text triggers 'that' (and neither 'it' nor 'first one'),
\* for each of altitude_ft, speed_value, heading_deg whose last_* reference is
\* held before the turn and whose parsed value is None or missing, the resolved
\* parameter and the slot at the end of the turn equal that reference.
C13_ThatResolvesToLastReference ==
    [][(/\ TurnStep
        /\ Scanned[call'.user_input].that
        /\ ~Scanned[call'.user_input].it
        /\ Scanned[call'.user_input].ordinal # "first") =>
            \E resolved \in {ResolvedOnStep} :
                \A k \in coref_keys :
                    (/\ last_names[k] \in DOMAIN entity_references
                     /\ Get(parameters_of(call'.parsed_command), k) = None)
                        => /\ Get(resolved, k) = entity_references[last_names[k]]
                           /\ Get(slots', k) = entity_references[last_names[k]]]_vars

\* C13: last_speed was 220 and a 'that' turn with speed_value None has stored 220
C13_Witness ==
    /\ Turn
    /\ turn_count = 2
    /\ Scanned[call.user_input].that
    /\ Scanned[call.user_input].waypoint = ""
    /\ parameters_of(call.parsed_command) = [speed_value |-> None]
    /\ Get(entity_references, "last_speed") = Num(220)
    /\ Get(slots, "speed_value") = Num(220)

\* ------------------------------------------------------------------------
\* Properties of merge_parsed_with_state (C14, C15)

\* the last call was a merge_parsed_with_state that returned
Merged == call.op = "merge_parsed_with_state" /\ ~call.raised

\* C14: in the command merge_parsed_with_state returns, each parameter whose
\* parsed value is not None has the parsed value, each parameter whose parsed
\* value is None or missing has the value of the slot when one is stored, and
\* every other key is absent or None.
C14_MergeFillsFromSlots ==
    (Merged /\ ~IsNone(parameters_of(call.parsed_command))) =>
        \A k \in (DOMAIN parameters_of(call.parsed_command)) \cup (DOMAIN slots)
                \cup (DOMAIN parameters_of(call.ret)) :
            Get(parameters_of(call.ret), k) =
                IF Get(parameters_of(call.parsed_command), k) # None
                THEN parameters_of(call.parsed_command)[k]
                ELSE Get(slots, k)

\* C14: heading_deg 0 was parsed while 90 is stored, and the merged command has 0
C14_Witness ==
    /\ Merged
    /\ Get(parameters_of(call.parsed_command), "heading_deg") = Num(0)
    /\ Get(slots, "heading_deg") = Num(90)
    /\ Get(parameters_of(call.ret), "heading_deg") = Num(0)

\* the raw text a command carries, "" when it carries none
OriginalInput(parsed_command) ==
    IF "_original_input" \in DOMAIN parsed_command
    THEN parsed_command["_original_input"].s ELSE ""

\* C15: the intent of the command merge_parsed_with_state returns is
\* current_intent when the command carries a raw text that is a correction, the
\* parsed intent is empty or 'status' and current_intent is set; otherwise it is
\* current_intent when the parsed intent is empty and current_intent is set;
\* otherwise it is the parsed intent, unchanged.
C15_MergedIntent ==
    Merged =>
        Get(call.ret, "intent") =
            IF /\ OriginalInput(call.parsed_command) # ""
               /\ is_correction(OriginalInput(call.parsed_command))
               /\ intent_of(call.parsed_command) \in {"", "status"}
               /\ current_intent # None
            THEN current_intent
            ELSE IF intent_of(call.parsed_command) = "" /\ current_intent # None
            THEN current_intent
            ELSE Get(call.parsed_command, "intent")

\* C15: a 'status' command carrying a correction text was merged while
\* current_intent was change_altitude, and the merged intent is change_altitude
C15_Witness ==
    /\ Merged
    /\ OriginalInput(call.parsed_command) # ""
    /\ is_correction(OriginalInput(call.parsed_command))
    /\ call.parsed_command["intent"] = Str("status")
    /\ current_intent = Str("change_altitude")
    /\ call.ret["intent"] = Str("change_altitude")

\* ------------------------------------------------------------------------
\* Properties of last_action in the application loop (C16)

\* this step is a pass of the loop that ended with a successful execution
SucceededStep == call'.op = "main" /\ ~call'.raised /\ call'.success

\* C16: a pass of the application loop changes last_action only when the executor
\* reports success, and then to the intent of the final command: a pass that
\* fails, in the tracker or in the executor, leaves last_action as the merge and
\* update_state it has made found it; otherwise only a reset changes it.
C16_LastActionOnlyOnSuccess ==
    [][/\ (call'.op = "main" /\ ~SucceededStep) => last_action' = last_action
       /\ SucceededStep => last_action' = call'.final_command.intent
       /\ last_action' # last_action => (SucceededStep \/ call'.op = "reset_state")]_vars

\* C16: after a successful change_altitude, a pass for another intent went
\* through merge and update_state, its execution failed, and last_action still
\* names change_altitude
C16_Witness ==
    /\ call.op = "main"
    /\ ~call.raised
    /\ ~call.success
    /\ turn_count = 2
    /\ last_action = Str("change_altitude")
    /\ current_intent = Str("change_direction")

\* ------------------------------------------------------------------------
\* Properties of malformed and failing calls (C17, C18)

\* the command lacks the 'intent' key or the 'parameters' key
LacksKey(parsed_command) ==
    "intent" \notin DOMAIN parsed_command \/ "parameters" \notin DOMAIN parsed_command

\* the command with an empty intent and empty parameters in place of the
\* missing keys
Completed(parsed_command) ==
    [k \in (DOMAIN parsed_command) \cup {"intent", "parameters"} |->
        IF k \in DOMAIN parsed_command THEN parsed_command[k]
        ELSE IF k = "intent" THEN Str("") ELSE EmptyDict]

\* the state this step leads to is the tracker `self`, up to the intent stored in
\* the last history record, which is the one of the command as given
BecomesAsWith(self, parsed_command) ==
    /\ current_intent' = self.current_intent
    /\ slots' = self.slots
    /\ pending_slots' = self.pending_slots
    /\ entity_references' = self.entity_references
    /\ last_action' = self.last_action
    /\ turn_count' = self.turn_count
    /\ conversation_history' =
           [self.conversation_history EXCEPT ![Len(self.conversation_history)].intent =
               Get(parsed_command, "intent")]

\* C17: update_state and merge_parsed_with_state, given a command that lacks
\* 'intent' or 'parameters', do not raise and do what they do on the command with
\* an empty intent and empty parameters in place of the missing keys: same
\* state, same returned state, same merged intent and parameters; and after
\* update_state on a command with no 'intent', current_intent is as before.
C17_MissingKeysActAsEmpty ==
    [][/\ (call'.op = "update_state" /\ LacksKey(call'.parsed_command)) =>
            /\ ~call'.raised
            /\ \E r \in {update_state(Self, Completed(call'.parsed_command),
                                      call'.user_input)} :
                   /\ ~r.raised
                   /\ BecomesAsWith(r.self, call'.parsed_command)
                   /\ call'.ret = r.ret
            /\ "intent" \notin DOMAIN call'.parsed_command
                   => current_intent' = current_intent
       /\ (call'.op = "merge_parsed_with_state" /\ LacksKey(call'.parsed_command)) =>
            /\ ~call'.raised
            /\ \E r \in {merge_parsed_with_state(Self, Completed(call'.parsed_command))} :
                   /\ ~r.raised
                   /\ Becomes(r.self)
                   /\ intent_of(call'.ret) = intent_of(r.ret)
                   /\ parameters_of(call'.ret) = parameters_of(r.ret)]_vars

\* C17: a command with no 'parameters' key was processed on top of a stored
\* slot; the call returned, the slot is kept and the intent is stored
C17_Witness ==
    /\ Turn
    /\ turn_count = 2
    /\ "parameters" \notin DOMAIN call.parsed_command
    /\ current_intent = call.parsed_command["intent"]
    /\ slots = conversation_history[1].parameters
    /\ slots # EmptyDict

\* C18: an update_state that raises leaves every field of the tracker as it was
\* before the call.
C18_FailedTurnChangesNothing ==
    [][(call'.op = "update_state" /\ call'.raised) => UNCHANGED fields]_vars

\* ------------------------------------------------------------------------
\* Properties of the history, the turn counter and the slot keys (C19, C20)

\* the history before this step is the beginning of the history after it
HistoryExtended ==
    /\ Len(conversation_history') >= Len(conversation_history)
    /\ SubSeq(conversation_history', 1, Len(conversation_history)) = conversation_history

\* C19: every update_state adds one to turn_count and appends exactly one record,
\* whose turn index is the new turn_count, leaving the earlier records as they
\* were; and no call other than reset_state shortens the history or lowers
\* turn_count.
C19_HistoryAppendOnly ==
    [][/\ call'.op = "update_state" =>
            /\ turn_count' = turn_count + 1
            /\ Len(conversation_history') = Len(conversation_history) + 1
            /\ HistoryExtended
            /\ conversation_history'[Len(conversation_history')].turn = turn_count'
       /\ call'.op # "reset_state" =>
            /\ HistoryExtended
            /\ turn_count' >= turn_count]_vars

\* C20: no call other than reset_state removes a key from slots.
C20_SlotKeysPersist ==
    [][call'.op # "reset_state" => DOMAIN slots \subseteq DOMAIN slots']_vars

\* C20: a turn changed current_intent from change_altitude to change_direction
\* and altitude_ft is still a key of slots
C20_Witness ==
    /\ Turn
    /\ turn_count = 2
    /\ Len(conversation_history) = 2
    /\ conversation_history[1].intent = Str("change_altitude")
    /\ conversation_history[1].parameters = [altitude_ft |-> Num(10000)]
    /\ current_intent = Str("change_direction")
    /\ "altitude_ft" \in DOMAIN slots

\* ------------------------------------------------------------------------
\* Properties of get_state (C21)

\* C21: get_state returns current_intent, slots, pending_slots, turn_count and
\* last_action as they are, with has_context true exactly when turn_count > 0;
\* get_state changes no field; and a change the caller makes to the slots or to
\* the pending_slots of the snapshot changes no field of the tracker.
C21_GetStateSnapshot ==
    [][/\ call'.op = "get_state" =>
            /\ call'.ret = [current_intent |-> current_intent,
                            slots |-> slots,
                            pending_slots |-> pending_slots,
                            turn_count |-> turn_count,
                            last_action |-> last_action,
                            has_context |-> turn_count > 0]
            /\ UNCHANGED fields
       /\ call'.op = "mutate_snapshot" => UNCHANGED fields]_vars

\* C21: get_state was called after an update_state that raised; the snapshot has
\* turn_count 1 and has_context false
C21_Witness ==
    /\ call.op = "get_state"
    /\ call.ret.turn_count = 1
    /\ ~call.ret.has_context

\* ------------------------------------------------------------------------
\* Properties of two sessions (C22)

FirstCalls == {"update_state", "merge_parsed_with_state", "set_last_action", "reset_state"}

OtherCalls == {"other.update_state", "other.merge_parsed_with_state",
               "other.set_last_action", "other.reset_state"}

\* C22: with two trackers, a call of update_state, merge_parsed_with_state,
\* set_last_action or reset_state on one of them leaves every field of the
\* other as it was.
C22_SessionIsolation ==
    [][/\ call'.op \in FirstCalls => other' = other
       /\ call'.op \in OtherCalls => UNCHANGED fields]_vars

\* C22: the first tracker stored altitude_ft 10000, then the other tracker
\* processed a turn that stored heading_deg 90, and the first one is as it was
C22_Witness ==
    /\ call.op = "other.update_state"
    /\ ~call.raised
    /\ slots = [altitude_ft |-> Num(10000)]
    /\ current_intent = Str("change_altitude")
    /\ turn_count = 1
    /\ other.slots = [heading_deg |-> Num(90)]
    /\ other.current_intent = Str("change_direction")
    /\ other.turn_count = 1

\* ------------------------------------------------------------------------
\* Properties of the Parameter-Update Extractor (C23, C24)

\* this step is a call of the extractor
ExtractStep == call'.op = "_extract_parameter_updates"

\* the number of the text of this step is stored in slot k after it
Routed(k) == Get(slots', k) = Num(Scanned[call'.user_input].number)

\* the text of this step has none of the keywords of the three groups
NoKeyword ==
    /\ ~Scanned[call'.user_input].altitude
    /\ ~Scanned[call'.user_input].speed
    /\ ~Scanned[call'.user_input].heading

\* C23: a call of the extractor changes at most one slot and removes none; with
\* a number in the text, an altitude keyword routes it to altitude_ft, otherwise
\* a speed keyword to speed_value, otherwise a direction keyword to heading_deg,
\* otherwise current_intent to its slot; with no number, or with no keyword and
\* a current_intent that is None or not one of the three, slots is unchanged;
\* and no other field changes.
C23_ExtractorPriority ==
    [][ExtractStep =>
        /\ DOMAIN slots \subseteq DOMAIN slots'
        /\ Cardinality({k \in DOMAIN slots' : Get(slots, k) # slots'[k]}) <= 1
        /\ Scanned[call'.user_input].has_number =>
               /\ Scanned[call'.user_input].altitude => Routed("altitude_ft")
               /\ (~Scanned[call'.user_input].altitude /\ Scanned[call'.user_input].speed)
                      => Routed("speed_value")
               /\ (/\ ~Scanned[call'.user_input].altitude
                   /\ ~Scanned[call'.user_input].speed
                   /\ Scanned[call'.user_input].heading) => Routed("heading_deg")
               /\ \A I \in DOMAIN IntentSlot :
                      (NoKeyword /\ current_intent = Str(I)) => Routed(IntentSlot[I])
        /\ (\/ ~Scanned[call'.user_input].has_number
            \/ /\ NoKeyword
               /\ \A I \in DOMAIN IntentSlot : current_intent # Str(I)) => slots' = slots
        /\ UNCHANGED <<current_intent, conversation_history, pending_slots,
                       entity_references, last_action, turn_count>>]_vars

\* C23: with speed_value 220 stored, the extractor was given a text with a speed
\* and an altitude keyword; the number is in altitude_ft and speed_value is 220
C23_Witness ==
    /\ call.op = "_extract_parameter_updates"
    /\ Scanned[call.user_input].has_number
    /\ Scanned[call.user_input].altitude
    /\ Scanned[call.user_input].speed
    /\ current_intent = Str("change_speed")
    /\ Get(slots, "speed_value") = Num(220)
    /\ Get(slots, "altitude_ft") = Num(Scanned[call.user_input].number)

\* the value slot k holds after this step, when the extractor has or has not
\* written the number of the text to it: the parsed value if there is one,
\* otherwise the number, or the value held before
AfterExtractor(k, written) ==
    IF Get(parameters_of(call'.parsed_command), k) # None
    THEN parameters_of(call'.parsed_command)[k]
    ELSE IF written THEN Num(Scanned[call'.user_input].number) ELSE Get(slots, k)

\* C24: on a correction turn whose text has a number and no keyword, taken with
\* current_intent I (one of the three intents with a slot) and a parsed intent J
\* that is not empty, not 'status' and not I, the number goes to the slot of I
\* (an explicit parsed value for that slot apart), the slot of J holds its
\* parsed value or the value it had, and current_intent is J after the turn.
C24_CorrectionRoutesByPreviousIntent ==
    [][\A I \in DOMAIN IntentSlot :
        (/\ TurnStep
         /\ is_correction(call'.user_input)
         /\ Scanned[call'.user_input].has_number
         /\ NoKeyword
         /\ current_intent = Str(I)
         /\ intent_of(call'.parsed_command) \notin {"", "status", I}) =>
            /\ Get(slots', IntentSlot[I]) = AfterExtractor(IntentSlot[I], TRUE)
            /\ current_intent' = Str(intent_of(call'.parsed_command))
            /\ \A J \in DOMAIN IntentSlot :
                   intent_of(call'.parsed_command) = J
                       => Get(slots', IntentSlot[J]) = AfterExtractor(IntentSlot[J], FALSE)]_vars

\* C24: after a change_altitude turn, a correction with a number, no keyword and
\* the parsed intent change_direction has put the number in altitude_ft, has
\* left heading_deg unset, and current_intent is change_direction
C24_Witness ==
    /\ Turn
    /\ turn_count = 2
    /\ Len(conversation_history) = 2
    /\ conversation_history[1].intent = Str("change_altitude")
    /\ conversation_history[1].parameters = [altitude_ft |-> Num(10000)]
    /\ is_correction(call.user_input)
    /\ Scanned[call.user_input].has_number
    /\ ~Scanned[call.user_input].altitude
    /\ call.parsed_command = Command(Str("change_direction"), EmptyDict)
    /\ Get(slots, "altitude_ft") = Num(Scanned[call.user_input].number)
    /\ "heading_deg" \notin DOMAIN slots
    /\ current_intent = Str("change_direction")

\* ------------------------------------------------------------------------
\* Properties of the entity references (C25, C26)

\* C25: after a processed turn, for each of altitude_ft, speed_value and
\* heading_deg, the last_* reference is the parsed value when that value is not
\* None (0 included), and is as it was before the turn when the parsed value is
\* None or missing.
C25_EntitiesRecordParsedValues ==
    [][TurnStep =>
        \A k \in coref_keys :
            Get(entity_references', last_names[k]) =
                IF Get(parameters_of(call'.parsed_command), k) # None
                THEN parameters_of(call'.parsed_command)[k]
                ELSE Get(entity_references, last_names[k])]_vars

\* C25: a turn with the parsed heading_deg 0 was processed and there is no
\* last_heading reference
C25_Witness ==
    /\ Turn
    /\ turn_count = 1
    /\ Get(parameters_of(call.parsed_command), "heading_deg") = Num(0)
    /\ Get(slots, "heading_deg") = Num(0)
    /\ "last_heading" \notin DOMAIN entity_references

\* the value is a waypoint reference
IsWaypoint(x) == x.t = "dict" /\ x.type = "waypoint"

\* C26: in every reachable state no waypoint reference is held under
\* last_altitude, last_speed, last_heading or aircraft, the entries that
\* coreference resolution and entity extraction use, and no slot holds a
\* waypoint reference.
C26_WaypointsNeverConsumed ==
    /\ \A name \in {"last_altitude", "last_speed", "last_heading", "aircraft"} :
           name \in DOMAIN entity_references => ~IsWaypoint(entity_references[name])
    /\ \A k \in DOMAIN slots : ~IsWaypoint(slots[k])

\* C26: a turn recorded a waypoint named last_altitude, and altitude_ft holds
\* the waypoint reference
C26_Witness ==
    /\ Turn
    /\ Scanned[call.user_input].waypoint = "last_altitude"
    /\ IsWaypoint(Get(entity_references, "last_altitude"))
    /\ IsWaypoint(Get(slots, "altitude_ft"))

\* ------------------------------------------------------------------------
\* Properties of the Coreference Resolver (C27 to C30)

\* this step is a call of the resolver
ResolveStep == call'.op = "_resolve_coreferences"

\* the resolver has been called, and no field has changed since
Resolved == call.op = "_resolve_coreferences"

\* every parameter of the mapping is None
AllNull(parameters) == \A k \in DOMAIN parameters : parameters[k] = None

\* on this step the 'it' rule fills parameter k
ItFills(k) ==
    /\ Scanned[call'.user_input].it
    /\ current_intent # None
    /\ AllNull(call'.parameters)
    /\ k \in coref_keys
    /\ k \in DOMAIN slots

\* on this step the 'first one' rule has a value for parameter k
FirstHas(k) ==
    /\ Scanned[call'.user_input].ordinal = "first"
    /\ Len(conversation_history) > 0
    /\ Get(conversation_history[1].parameters, k) # None

\* on this step the 'that' rule has a value for parameter k
ThatHas(k) ==
    /\ Scanned[call'.user_input].that
    /\ k \in coref_keys
    /\ last_names[k] \in DOMAIN entity_references

\* C27: in a call of the resolver, for each parameter given as None or missing:
\* when the 'it' rule fills it the result is the slot, whatever the first turn
\* and the last_* references hold; otherwise, when the 'first one' rule has a
\* value the result is the first turn's value, whatever the last_* reference
\* holds; otherwise, when the 'that' rule has a value the result is the last_*
\* reference.
C27_FirstWriterWins ==
    [][ResolveStep =>
        \A k \in coref_keys :
            Get(call'.parameters, k) = None =>
                /\ ItFills(k) => Get(call'.ret, k) = slots[k]
                /\ (~ItFills(k) /\ FirstHas(k))
                       => Get(call'.ret, k) = conversation_history[1].parameters[k]
                /\ (~ItFills(k) /\ ~FirstHas(k) /\ ThatHas(k))
                       => Get(call'.ret, k) = entity_references[last_names[k]]]_vars

\* C27: a text with 'it', 'first one' and 'that' was resolved while the slot,
\* the first turn and last_altitude held 12000, 10000 and 10000 for altitude_ft,
\* and the result is the slot's 12000
C27_Witness ==
    /\ Resolved
    /\ Scanned[call.user_input].it
    /\ Scanned[call.user_input].ordinal = "first"
    /\ Scanned[call.user_input].that
    /\ call.parameters = [altitude_ft |-> None]
    /\ Get(slots, "altitude_ft") = Num(12000)
    /\ turn_count = 2
    /\ Get(conversation_history[1].parameters, "altitude_ft") = Num(10000)
    /\ Get(entity_references, "last_altitude") = Num(10000)
    /\ call.ret = [altitude_ft |-> Num(12000)]

\* the text of this step triggers the 'it' rule and no other rule
OnlyIt ==
    /\ Scanned[call'.user_input].it
    /\ Scanned[call'.user_input].ordinal = ""
    /\ ~Scanned[call'.user_input].that

\* C28: in a call of the resolver on a text that triggers only 'it': when every
\* incoming parameter is None and current_intent is set, each of altitude_ft,
\* speed_value and heading_deg is the slot when one is stored, and every other
\* parameter is as given; when some incoming parameter is not None, or
\* current_intent is None, the result is the incoming mapping.
C28_ItBackfillsOnlyAllNull ==
    [][(ResolveStep /\ OnlyIt) =>
        IF AllNull(call'.parameters) /\ current_intent # None
        THEN /\ DOMAIN call'.ret = (DOMAIN call'.parameters) \cup (coref_keys \cap DOMAIN slots)
             /\ \A k \in DOMAIN call'.ret :
                    call'.ret[k] = IF k \in coref_keys /\ k \in DOMAIN slots
                                   THEN slots[k] ELSE call'.parameters[k]
        ELSE call'.ret = call'.parameters]_vars

\* C28: 'do it' was resolved with altitude_ft None and speed_value 250 incoming
\* while altitude_ft was stored, and altitude_ft is still None in the result
C28_Witness ==
    /\ Resolved
    /\ call.user_input = "do it"
    /\ current_intent = Str("change_altitude")
    /\ Get(slots, "altitude_ft") = Num(10000)
    /\ call.parameters = [altitude_ft |-> None, speed_value |-> Num(250)]
    /\ call.ret = call.parameters

\* C28: 'do it' was resolved with altitude_ft None incoming while altitude_ft and
\* speed_value were stored, and both are in the result
C28_WitnessFilled ==
    /\ Resolved
    /\ call.user_input = "do it"
    /\ call.parameters = [altitude_ft |-> None]
    /\ slots = [altitude_ft |-> Num(10000), speed_value |-> Num(220)]
    /\ call.ret = [altitude_ft |-> Num(10000), speed_value |-> Num(220)]

\* C28: 'do it' was resolved with nothing incoming while speed_value was stored
\* and current_intent was None, and the result is empty
C28_WitnessNoIntent ==
    /\ Resolved
    /\ call.user_input = "do it"
    /\ call.parameters = EmptyDict
    /\ current_intent = None
    /\ slots = [speed_value |-> Num(220)]
    /\ call.ret = EmptyDict

\* the text of this step triggers neither the 'it' rule nor the 'that' rule
NeitherItNorThat == ~Scanned[call'.user_input].it /\ ~Scanned[call'.user_input].that

\* the keys the first turn's record has a value for and the incoming mapping
\* has none for
FromFirstTurn ==
    {k \in DOMAIN conversation_history[1].parameters :
        conversation_history[1].parameters[k] # None /\ Get(call'.parameters, k) = None}

\* C29: in a call of the resolver on a text that triggers neither 'it' nor
\* 'that': with 'first one' and a history, each parameter given as None or
\* missing for which the first record of conversation_history has a value gets
\* that value, and the others are as given; with 'second one', 'third one',
\* 'last one', 'there' or no trigger the result is the incoming mapping.  And the
\* parameters of a record are those passed to update_state on its turn, which
\* no later turn changes.
C29_OrdinalFirstOnly ==
    [][/\ (ResolveStep /\ NeitherItNorThat) =>
            IF Scanned[call'.user_input].ordinal = "first" /\ Len(conversation_history) > 0
            THEN /\ DOMAIN call'.ret = (DOMAIN call'.parameters) \cup FromFirstTurn
                 /\ \A k \in DOMAIN call'.ret :
                        call'.ret[k] = IF k \in FromFirstTurn
                                       THEN conversation_history[1].parameters[k]
                                       ELSE call'.parameters[k]
            ELSE call'.ret = call'.parameters
       /\ TurnStep =>
            /\ HistoryExtended
            /\ conversation_history'[Len(conversation_history')].parameters =
                   parameters_of(call'.parsed_command)]_vars

\* C29: 'the first one' was resolved with altitude_ft None incoming after two
\* turns, the first with altitude_ft 10000 and the second with 5000, and the
\* result is 10000
C29_Witness ==
    /\ Resolved
    /\ call.user_input = "the first one"
    /\ turn_count = 2
    /\ Len(conversation_history) = 2
    /\ conversation_history[1].parameters = [altitude_ft |-> Num(10000)]
    /\ conversation_history[2].parameters = [altitude_ft |-> Num(5000)]
    /\ slots = [altitude_ft |-> Num(5000)]
    /\ call.parameters = [altitude_ft |-> None]
    /\ call.ret = [altitude_ft |-> Num(10000)]

\* C29: 'the last one' was resolved with altitude_ft None incoming after a turn
\* with altitude_ft 10000, and the result is the incoming mapping
C29_WitnessLast ==
    /\ Resolved
    /\ Scanned[call.user_input].ordinal = "last"
    /\ Len(conversation_history) > 0
    /\ conversation_history[1].parameters = [altitude_ft |-> Num(10000)]
    /\ call.parameters = [altitude_ft |-> None]
    /\ call.ret = call.parameters

\* C30: a call of the resolver changes no field of the tracker,
\* entity_references and slots included, and leaves the mapping it was given as
\* it was; the call only returns the resolved mapping.
C30_ResolverIsPure ==
    [][ResolveStep =>
        /\ UNCHANGED fields
        /\ call'.after = call'.parameters]_vars

\* C30: the resolver filled altitude_ft from last_altitude in what it returned,
\* and the mapping it was given still has altitude_ft None
C30_Witness ==
    /\ Resolved
    /\ call.user_input = "keep doing that"
    /\ Get(entity_references, "last_altitude") = Num(10000)
    /\ call.parameters = [altitude_ft |-> None]
    /\ call.ret = [altitude_ft |-> Num(10000)]
    /\ call.after = [altitude_ft |-> None]

\* ------------------------------------------------------------------------
\* Properties of the history records (C31)

\* the record appended by the turn made on this step
NewRecord == conversation_history'[Len(conversation_history')]

\* C31: the record a processed turn appends holds the turn index, the raw text,
\* and the intent and the parameters of the parsed command as passed to
\* update_state, also on a correction turn whose intent is overridden to
\* current_intent (the caller's command then carries current_intent, the record
\* the empty or 'status' intent); and no call other than reset_state changes a
\* record already in the history.
C31_RecordHoldsParsedCommand ==
    [][/\ TurnStep =>
            /\ Len(conversation_history') = Len(conversation_history) + 1
            /\ NewRecord = [turn |-> turn_count',
                            user_input |-> call'.user_input,
                            intent |-> Get(call'.parsed_command, "intent"),
                            parameters |-> parameters_of(call'.parsed_command)]
            /\ intent_overridden(Self, call'.parsed_command, call'.user_input) =>
                   /\ intent_of(call'.parsed_command) \in {"", "status"}
                   /\ NewRecord.intent \in {None, Str(""), Str("status")}
                   /\ call'.after["intent"] = current_intent'
       /\ call'.op # "reset_state" => HistoryExtended]_vars

\* C31: a correction parsed as 'status' was processed while current_intent was
\* change_altitude: the slot went from 10000 to 12000, the record of the turn
\* holds 'status', and the record of the first turn still holds 10000
C31_Witness ==
    /\ Turn
    /\ turn_count = 2
    /\ Len(conversation_history) = 2
    /\ is_correction(call.user_input)
    /\ call.parsed_command = Command(Str("status"), EmptyDict)
    /\ call.after["intent"] = Str("change_altitude")
    /\ current_intent = Str("change_altitude")
    /\ conversation_history[2].intent = Str("status")
    /\ conversation_history[2].parameters = EmptyDict
    /\ conversation_history[1].parameters = [altitude_ft |-> Num(10000)]
    /\ Get(slots, "altitude_ft") = Num(12000)

\* ------------------------------------------------------------------------
\* Properties of the session states Empty, Active and Ready (C32, C33)

\* Ready: an intent is set and nothing is pending; Active: something is pending
Ready == current_intent # None /\ pending_slots = << >>

Active == current_intent # None /\ pending_slots # << >>

Empty == Self = NewTracker

\* the required slots of the intent that slots' does not fill
UnfilledAfter(intent) ==
    IF intent.t = "str" /\ intent.s \in DOMAIN RequiredTable
    THEN {name \in Names(RequiredTable[intent.s]) : Get(slots', name) = None}
    ELSE {}

\* C32: a processed turn taken in a Ready state that changes current_intent to
\* an intent with a required slot not filled in slots ends with pending_slots
\* non-empty (Active); a processed turn taken in a Ready state after which every
\* required slot of current_intent is filled ends Ready; and reset_state ends
\* in the state of a fresh tracker (Empty).
C32_ReadyIsNotTerminal ==
    [][/\ (TurnStep /\ Ready) =>
            /\ (current_intent' # current_intent /\ UnfilledAfter(current_intent') # {})
                   => Active'
            /\ UnfilledAfter(current_intent') = {} => Ready'
       /\ call'.op = "reset_state" => Empty']_vars

\* C32: after a change_altitude turn that left nothing pending, a
\* change_direction turn with no value has left heading_deg and direction pending
C32_Witness ==
    /\ Turn
    /\ turn_count = 2
    /\ Len(conversation_history) = 2
    /\ conversation_history[1].intent = Str("change_altitude")
    /\ conversation_history[1].parameters = [altitude_ft |-> Num(10000)]
    /\ ~is_correction(conversation_history[1].user_input)
    /\ call.parsed_command = Command(Str("change_direction"), EmptyDict)
    /\ current_intent = Str("change_direction")
    /\ slots = [altitude_ft |-> Num(10000)]
    /\ pending_slots = <<"heading_deg", "direction">>

\* C32: after a change_altitude turn that left nothing pending, a Change_Speed
\* turn with its value has left nothing pending
C32_WitnessReady ==
    /\ Turn
    /\ turn_count = 2
    /\ Len(conversation_history) = 2
    /\ conversation_history[1].intent = Str("change_altitude")
    /\ conversation_history[1].parameters = [altitude_ft |-> Num(10000)]
    /\ current_intent = Str("change_speed")
    /\ Get(slots, "speed_value") = Num(220)
    /\ pending_slots = << >>

\* C33: a call other than reset_state made while current_intent is set leaves
\* current_intent set; an update_state whose parsed intent is empty or missing
\* leaves current_intent as it was; and current_intent goes from set to None
\* only by reset_state.
C33_IntentStaysSet ==
    [][/\ (current_intent # None /\ call'.op # "reset_state") => current_intent' # None
       /\ (/\ call'.op = "update_state"
           /\ current_intent # None
           /\ Get(call'.parsed_command, "intent") \in {None, Str("")})
              => current_intent' = current_intent
       /\ (current_intent # None /\ current_intent' = None) => call'.op = "reset_state"]_vars

\* C33: after a change_altitude turn, a turn whose intent is empty or missing
\* and whose text is no correction was processed, and current_intent is still
\* change_altitude
C33_Witness ==
    /\ Turn
    /\ turn_count = 2
    /\ Len(conversation_history) = 2
    /\ conversation_history[1].intent = Str("change_altitude")
    /\ Get(call.parsed_command, "intent") \in {None, Str("")}
    /\ ~is_correction(call.user_input)
    /\ current_intent = Str("change_altitude")

\* ------------------------------------------------------------------------
\* Properties of the query operations (C34) and of the caller's command (C35)

QueryCalls == {"is_correction", "get_context_for_parser", "merge_parsed_with_state"}

\* C34: is_correction, get_context_for_parser and merge_parsed_with_state change
\* no field of the tracker, and get_context_for_parser returns the empty string
\* (no line at all) exactly when conversation_history is empty.
C34_QueriesChangeNothing ==
    [][/\ call'.op \in QueryCalls => UNCHANGED fields
       /\ call'.op = "get_context_for_parser" =>
              (call'.ret = << >> <=> Len(conversation_history) = 0)]_vars

\* C34: get_context_for_parser was called after a turn that set no intent and
\* filled no slot, and returned the line of that turn only
C34_Witness ==
    /\ call.op = "get_context_for_parser"
    /\ Len(conversation_history) = 1
    /\ current_intent = None
    /\ slots = EmptyDict
    /\ Len(call.ret) = 1
    /\ call.ret[1].value = conversation_history[1]

\* C34: merge_parsed_with_state filled a parameter from a stored slot, and the
\* slot is still stored
C34_WitnessMerge ==
    /\ Merged
    /\ Get(slots, "altitude_ft") = Num(10000)
    /\ Get(parameters_of(call.parsed_command), "altitude_ft") = None
    /\ Get(parameters_of(call.ret), "altitude_ft") = Num(10000)

\* C35: after an update_state or a merge_parsed_with_state that returned, the
\* caller's command has the intent and the parameters it had before the call.
C35_CallerCommandUntouched ==
    (call.op \in {"update_state", "merge_parsed_with_state"} /\ ~call.raised) =>
        /\ DOMAIN call.after = DOMAIN call.parsed_command
        /\ Get(call.after, "intent") = Get(call.parsed_command, "intent")
        /\ parameters_of(call.after) = parameters_of(call.parsed_command)

\* C35: merge_parsed_with_state was given a command with empty parameters while
\* altitude_ft was stored, and the caller's command now carries altitude_ft
C35_Witness ==
    /\ Merged
    /\ slots = [altitude_ft |-> Num(10000)]
    /\ call.parsed_command = Command(Str("status"), EmptyDict)
    /\ call.after = Command(Str("status"), [altitude_ft |-> Num(10000)])

\* C35: update_state was given a correction parsed as 'status' while
\* current_intent was change_altitude, and the caller's command now carries
\* change_altitude
C35_WitnessIntent ==
    /\ Turn
    /\ is_correction(call.user_input)
    /\ call.parsed_command = Command(Str("status"), EmptyDict)
    /\ call.after = Command(Str("change_altitude"), EmptyDict)

====
